---- MODULE Spec2Model ----
(***************************************************************************)
(* Convergence-rate computation of the "Error control: Computing           *)
(* convergence rates" notebook (src/unnamed/part_000):                     *)
(*                                                                         *)
(*     rates = np.log(Es[1:]/Es[:-1])/np.log(hs[1:]/hs[:-1])               *)
(*     print(f"Rates: {rates}")                                            *)
(*                                                                         *)
(* Es and hs are numpy float64 arrays.  A float64 is modelled as NaN,      *)
(* +inf, -inf or an exact rational num/den in lowest terms (den > 0).      *)
(* The inputs are signed powers of two and zero, so every quotient of      *)
(* inputs is again a signed power of two and its logarithm is an integer   *)
(* multiple of ln 2.  np.log is modelled by the base-2 logarithm: the      *)
(* common factor ln 2 cancels in the quotient of the two logarithms, so    *)
(* the rates are the exact values of the source expression (rounding is    *)
(* not modelled).  The sign of a zero is not tracked: no divisor of the    *)
(* expression can be -0.0 for these inputs, and log(-0.0) = log(0.0).      *)
(* Overflow and underflow of a quotient are outside the bounded inputs.    *)
(* The logarithm of a positive value that is no power of two (the measured *)
(* errors of the notebook's output) is computed digit by digit in fixed    *)
(* point and cut after FracBits binary digits: it is at most the true      *)
(* logarithm and less than 2^-(FracBits-1) below it.                       *)
(* Es has dtype PETSc.ScalarType, float64 in the real-valued build the     *)
(* notebook's printed output comes from.                                   *)
(*                                                                         *)
(* Three specifications share the rates cell:                              *)
(*   Spec        the cell applied to arbitrary arrays Es, hs of one length *)
(*   SpecDriver  the loop over Ns that fills Es and hs, then the cell      *)
(*   SpecPower   the cell applied to errors of the form E_i = C h_i^r      *)
(* and one is the multi-degree study of the same notebook:                 *)
(*   SpecDegree  the loop over the degrees, each with its own Es, hs       *)
(*                                                                         *)
(* Two further notebooks are modelled, each with variables of its own:     *)
(*   SpecHeat    the time-stepping loop of the heat equation               *)
(*               (SpecHeatFair: the same, run to completion)               *)
(*   SpecNewton  the callbacks of NonlinearPDEProblem under the Newton     *)
(*               solver                                                    *)
(* In these the time is an exact rational, and a vector or a matrix is     *)
(* the sequence of the contributions assembled into it since it was last   *)
(* zeroed, so that a missing reset or a stale coefficient shows in the     *)
(* value.                                                                  *)
(***************************************************************************)
EXTENDS Integers, Sequences, FiniteSets, TLC

\* ------------------------------------------------------------------ bounds
MaxLen == 3     \* longest sample sequence (n = 0 .. MaxLen)
MaxHExp == 2    \* h ranges over 2^0, 2^-1, ..., 2^-MaxHExp
MaxEExp == 1    \* |error| ranges over 2^0, ..., 2^-MaxEExp, plus 0
FracBits == 10  \* binary digits kept of the logarithm of a non-power of two
HalfBits == 12  \* mantissas carry 2 * HalfBits binary digits
MaxRate == 2    \* power-law exponents r = -MaxRate .. MaxRate
MaxCExp == 1    \* power-law constants C = 2^-c and 3 * 2^-c, c = 0 .. MaxCExp
MaxSteps == 20  \* heat equation: num_steps = 1 .. MaxSteps (the notebook has 20)
MaxT == 2       \* heat equation: end time T = 1 .. MaxT (the notebook has 2)
MaxX == 2       \* Newton: the iterates are the vectors 0 .. MaxX (0: all zeros)
MaxNewton == 3  \* Newton: at most MaxNewton iterations
MaxVaried == 3  \* degree study: the solves at the first MaxVaried resolutions
                \* return one of two errors, the finer ones a single error

\* the convergence study: iLoop is the loop variable i of the driver, 1-based;
\* dLoop is the position of the degree loop in its list of degrees, 1-based
VARIABLES Es, hs, rates, pc, err, stdout, Ns, iLoop, dLoop

\* the heat equation: t_start is the variable t of the notebook, T_end its T,
\* b_vec its b, A_mat its A, n_step its loop variable n (the number of
\* iterations begun), ksp_op the matrix the linear solver holds
VARIABLES t_start, T_end, num_steps, dt, u_exact_t, u_D, u_n, uh, b_vec, A_mat,
          ksp_op, n_step

\* the nonlinear Poisson problem: uh_vector is uh.vector, the vector the
\* Newton solver iterates on; res_vec is problem.vector, jac_mat is
\* problem.matrix; n_iter is the number of iterations the solver has made
VARIABLES uh_vector, res_vec, jac_mat, n_iter

rateVars == <<Es, hs, rates, err, Ns, iLoop, dLoop>>

heatVars ==
    <<t_start, T_end, num_steps, dt, u_exact_t, u_D, u_n, uh, b_vec, A_mat,
      ksp_op, n_step>>

newtonVars == <<uh_vector, res_vec, jac_mat, n_iter>>

vars == <<rateVars, pc, stdout, heatVars, newtonVars>>

\* the notebooks are separate programs: while one runs, the variables of the
\* others do not exist
RateIdle ==
    /\ Es = << >> /\ hs = << >> /\ rates = << >> /\ err = "none"
    /\ Ns = << >> /\ iLoop = 1 /\ dLoop = 1

HeatIdle ==
    /\ t_start = 0 /\ T_end = 0 /\ num_steps = 0 /\ dt = 0 /\ u_exact_t = 0
    /\ u_D = << >> /\ u_n = << >> /\ uh = << >> /\ b_vec = << >> /\ A_mat = << >>
    /\ ksp_op = "unset" /\ n_step = 0

NewtonIdle ==
    /\ uh_vector = 0 /\ res_vec = << >> /\ jac_mat = << >> /\ n_iter = 0

\* ------------------------------------------------------- float64 arithmetic
Abs(x) == IF x < 0 THEN -x ELSE x

Sgn(x) == IF x < 0 THEN -1 ELSE IF x > 0 THEN 1 ELSE 0

RECURSIVE Gcd(_, _)
Gcd(a, b) == IF b = 0 THEN a ELSE Gcd(b, a % b)

RECURSIVE Pow2(_)
Pow2(k) == IF k = 0 THEN 1 ELSE 2 * Pow2(k - 1)

\* floor(log2(n)) for n >= 1
RECURSIVE ILog2(_)
ILog2(n) == IF n <= 1 THEN 0 ELSE 1 + ILog2(n \div 2)

NaN == [k |-> "nan", num |-> 0, den |-> 1]

Inf(s) == [k |-> IF s < 0 THEN "ninf" ELSE "pinf", num |-> 0, den |-> 1]

\* the finite value p/q (q # 0), in lowest terms with a positive denominator
Fin(p, q) ==
    LET g == Gcd(Abs(p), Abs(q))
    IN  [k |-> "fin", num |-> Sgn(q) * (p \div g), den |-> Abs(q) \div g]

IsFin(x) == x.k = "fin"

IsNaN(x) == x.k = "nan"

IsInf(x) == x.k \in {"pinf", "ninf"}

\* sign of a float: -1, 0, 1 (0 for zero and for NaN)
Sign(x) ==
    CASE x.k = "pinf" -> 1
      [] x.k = "ninf" -> -1
      [] x.k = "nan" -> 0
      [] OTHER -> Sgn(x.num)

Less(x, y) == x.num * y.den < y.num * x.den

\* a / b on float64 (IEEE 754, numpy's default error state: warnings only)
\* variant: a division guarded against a zero divisor (x/0 = 0)
FDiv_ZeroGuard(a, b) ==
    IF IsNaN(a) \/ IsNaN(b) THEN NaN
    ELSE IF IsFin(b) /\ b.num = 0 THEN Fin(0, 1)
    ELSE IF IsInf(a) /\ IsInf(b) THEN NaN
    ELSE IF IsInf(a) THEN Inf(Sign(a) * Sign(b))
    ELSE IF IsInf(b) THEN Fin(0, 1)
    ELSE Fin(a.num * b.den, a.den * b.num)

\* variant: a negative quotient clamped to zero
FDiv_Clamped(a, b) ==
    IF IsNaN(a) \/ IsNaN(b) THEN NaN
    ELSE IF IsInf(a) /\ IsInf(b) THEN NaN
    ELSE IF IsInf(a) THEN Inf(Sign(a) * (IF Sign(b) < 0 THEN -1 ELSE 1))
    ELSE IF IsInf(b) THEN Fin(0, 1)
    ELSE IF b.num = 0 THEN (IF a.num = 0 THEN NaN ELSE Inf(Sign(a)))
    ELSE IF Sgn(a.num) * Sgn(b.num) < 0 THEN Fin(0, 1)
    ELSE Fin(a.num * b.den, a.den * b.num)

\* a / b on float64
FDiv(a, b) ==
    IF IsNaN(a) \/ IsNaN(b) THEN NaN
    ELSE IF IsInf(a) /\ IsInf(b) THEN NaN
    ELSE IF IsInf(a) THEN Inf(Sign(a) * (IF Sign(b) < 0 THEN -1 ELSE 1))
    ELSE IF IsInf(b) THEN Fin(0, 1)
    ELSE IF b.num = 0 THEN (IF a.num = 0 THEN NaN ELSE Inf(Sign(a)))
    ELSE Fin(a.num * b.den, a.den * b.num)

\* n is a power of two (n >= 1)
IsPow2(n) == Pow2(ILog2(n)) = n

\* floor(log2(p/q)) for p, q >= 1
FloorLog2(p, q) ==
    IF p >= q THEN ILog2(p \div q)
    ELSE -(ILog2(((q + p - 1) \div p) - 1) + 1)

\* <<floor(p * 2^n / q), (p * 2^n) % q>> by long division
RECURSIVE DivRec(_, _, _)
DivRec(p, q, n) ==
    IF n = 0 THEN <<p \div q, p % q>>
    ELSE LET t == DivRec(p, q, n - 1)
         IN  <<2 * t[1] + ((2 * t[2]) \div q), (2 * t[2]) % q>>

\* mantissas are fixed-point numbers m / MantOne with MantOne <= m < 2 MantOne
MantOne == Pow2(2 * HalfBits)

\* the mantissa of p/q: floor((p/q) / 2^FloorLog2(p, q) * MantOne)
Mantissa(p, q) ==
    LET e == FloorLog2(p, q)
    IN  IF e >= 0 THEN DivRec(p, q * Pow2(e), 2 * HalfBits)[1]
        ELSE DivRec(p * Pow2(-e), q, 2 * HalfBits)[1]

\* floor(m^2 / MantOne), the product formed in halves of HalfBits digits
SqFix(m) ==
    LET H == Pow2(HalfBits)
        mh == m \div H
        ml == m % H
    IN  mh * mh + ((2 * mh * ml + ((ml * ml) \div H)) \div H)

\* the first n binary digits of log2(m / MantOne), as an integer
RECURSIVE FracLog(_, _)
FracLog(m, n) ==
    IF n = 0 THEN 0
    ELSE LET s == SqFix(m)
         IN  IF s >= 2 * MantOne
             THEN Pow2(n - 1) + FracLog(s \div 2, n - 1)
             ELSE FracLog(s, n - 1)

\* log2(p/q) for p, q >= 1, cut after FracBits binary digits
Log2Fix(p, q) ==
    Fin(FloorLog2(p, q) * Pow2(FracBits) + FracLog(Mantissa(p, q), FracBits),
        Pow2(FracBits))

\* np.log(x) on float64, in units of ln 2: exact for a signed power of two,
\* cut after FracBits binary digits otherwise
\* variant: the logarithm of the absolute value
FLog_Abs(x) ==
    IF IsNaN(x) THEN NaN
    ELSE IF IsInf(x) THEN Inf(1)
    ELSE IF x.num = 0 THEN Inf(-1)
    ELSE IF IsPow2(Abs(x.num)) /\ IsPow2(x.den)
         THEN Fin(ILog2(Abs(x.num)) - ILog2(x.den), 1)
         ELSE Log2Fix(Abs(x.num), x.den)

\* variant: log(0) taken as NaN
FLog_ZeroNaN(x) ==
    IF IsNaN(x) \/ x.k = "ninf" THEN NaN
    ELSE IF x.k = "pinf" THEN Inf(1)
    ELSE IF x.num <= 0 THEN NaN
    ELSE IF IsPow2(x.num) /\ IsPow2(x.den)
         THEN Fin(ILog2(x.num) - ILog2(x.den), 1)
         ELSE Log2Fix(x.num, x.den)

\* np.log(x) on float64
FLog(x) ==
    IF IsNaN(x) \/ x.k = "ninf" THEN NaN
    ELSE IF x.k = "pinf" THEN Inf(1)
    ELSE IF x.num = 0 THEN Inf(-1)
    ELSE IF x.num < 0 THEN NaN
    ELSE IF IsPow2(x.num) /\ IsPow2(x.den)
         THEN Fin(ILog2(x.num) - ILog2(x.den), 1)
         ELSE Log2Fix(x.num, x.den)

\* ------------------------------------------------------------ numpy arrays
\* a[1:] : everything but the first element (empty for len(a) <= 1)
SliceFrom1(a) == SubSeq(a, 2, Len(a))

\* a[:-1] : everything but the last element (empty for len(a) <= 1)
\* variant: a[:-2]
SliceToLast_Short(a) == IF Len(a) <= 2 THEN << >> ELSE SubSeq(a, 1, Len(a) - 2)

SliceToLast(a) == IF Len(a) = 0 THEN << >> ELSE SubSeq(a, 1, Len(a) - 1)

\* shapes (m,) and (n,) broadcast when they are equal or one of them is 1
Broadcasts(a, b) == Len(a) = Len(b) \/ Len(a) = 1 \/ Len(b) = 1

BroadcastLen(a, b) == IF Len(a) = 1 THEN Len(b) ELSE Len(a)

Pick(a, i) == IF Len(a) = 1 THEN a[1] ELSE a[i]

\* elementwise a / b
ADiv(a, b) == [i \in 1..BroadcastLen(a, b) |-> FDiv(Pick(a, i), Pick(b, i))]

\* elementwise np.log(a)
ALog(a) == [i \in 1..Len(a) |-> FLog(a[i])]

\* ------------------------------------------------- the rate computation
\* the exception the expression raises ("none": it evaluates): numpy raises
\* only when two operand shapes do not broadcast; division by zero and
\* logarithms of non-positive numbers are warnings, never exceptions
\* variant: a loop over i that reads E[i+1] up to the last i
RaisedBy_Indexed(E, h) == IF Len(E) >= 1 THEN "IndexError" ELSE "none"

\* variant: the arrays validated first (a zero error or a non-decreasing h
\* rejected)
RaisedBy_Validating(E, h) ==
    IF \/ \E i \in 1..Len(E) : E[i].num = 0
       \/ \E i \in 1..(Len(h) - 1) : ~Less(h[i + 1], h[i])
    THEN "ValueError"
    ELSE "none"

RaisedBy(E, h) ==
    IF /\ Broadcasts(SliceFrom1(E), SliceToLast(E))
       /\ Broadcasts(SliceFrom1(h), SliceToLast(h))
       /\ Broadcasts(ADiv(SliceFrom1(E), SliceToLast(E)),
                     ADiv(SliceFrom1(h), SliceToLast(h)))
    THEN "none"
    ELSE "ValueError"

\* np.log(Es[1:]/Es[:-1])/np.log(hs[1:]/hs[:-1])
\* variant: non-finite values filtered out of the result
RatesExpr_DropNonFinite(E, h) ==
    SelectSeq(ADiv(ALog(ADiv(SliceFrom1(E), SliceToLast(E))),
                   ALog(ADiv(SliceFrom1(h), SliceToLast(h)))),
              IsFin)

\* variant: the h quotient taken the other way round (hs[:-1]/hs[1:])
RatesExpr_HFlipped(E, h) ==
    ADiv(ALog(ADiv(SliceFrom1(E), SliceToLast(E))),
         ALog(ADiv(SliceToLast(h), SliceFrom1(h))))

RatesExpr(E, h) ==
    ADiv(ALog(ADiv(SliceFrom1(E), SliceToLast(E))),
         ALog(ADiv(SliceFrom1(h), SliceToLast(h))))

\* ------------------------------------------------------------ state machine
\* h = 2^-k
HVal(k) == Fin(1, Pow2(k))

\* error = s * 2^-k  (s = 0: zero)
EVal(s, k) == Fin(s, Pow2(k))

HVals == {HVal(k) : k \in 0..MaxHExp}

EVals == {EVal(s, k) : s \in {-1, 1}, k \in 0..MaxEExp} \cup {EVal(0, 0)}

\* Es and hs hold one entry per resolution: two float64 arrays of one length.
\* rates is unbound and nothing is printed until the cell has run.  The
\* arrays are any arrays a caller may hand to the expression; the loop that
\* fills them (Ns, i) is over and plays no part.
Init ==
    /\ \E n \in 0..MaxLen :
          /\ Es \in [1..n -> EVals]
          /\ hs \in [1..n -> HVals]
    /\ Ns = << >>
    /\ iLoop = 1
    /\ dLoop = 1
    /\ HeatIdle
    /\ NewtonIdle
    /\ rates = << >>
    /\ pc = "start"
    /\ err = "none"
    /\ stdout = << >>

\* variant: the error quotient formed in place (Es[1:] /= Es[:-1])
RatesCell_InPlace ==
    /\ pc = "start"
    /\ rates' = RatesExpr(Es, hs)
    /\ Es' = [i \in 1..Len(Es) |-> IF i = 1 THEN Es[1] ELSE FDiv(Es[i], Es[i - 1])]
    /\ stdout' = Append(stdout, rates')
    /\ err' = "none"
    /\ pc' = "done"
    /\ UNCHANGED <<hs, Ns, iLoop, dLoop, heatVars, newtonVars>>

\* the cell: rates = <expression>; print(f"Rates: {rates}")
RatesCell ==
    /\ pc = "start"
    /\ IF RaisedBy(Es, hs) = "none"
       THEN /\ rates' = RatesExpr(Es, hs)
            /\ stdout' = Append(stdout, rates')
            /\ err' = "none"
            /\ pc' = "done"
       ELSE /\ err' = RaisedBy(Es, hs)
            /\ pc' = "raised"
            /\ UNCHANGED <<rates, stdout>>
    /\ UNCHANGED <<Es, hs, Ns, iLoop, dLoop, heatVars, newtonVars>>

Next == RatesCell

Spec == Init /\ [][Next]_vars

\* ------------------------------------------------ the convergence driver
\* Ns = [4, 8, 16, 32, 64]
NsCode == <<4, 8, 16, 32, 64>>

\* np.zeros(n)
Zeros(n) == [j \in 1..n |-> Fin(0, 1)]

\* hs[i] = 1./Ns[i]
\* variant: the first resolution used for every index (1./Ns[0])
MeshSize_FirstN(ns, j) == FDiv(Fin(1, 1), Fin(ns[1], 1))

MeshSize(ns, j) == FDiv(Fin(1, 1), Fin(ns[j], 1))

\* the errors the degree-1 solves returned in the recorded run of the
\* notebook: 2.43e-01, 7.96e-02, 2.15e-02, 5.47e-03, 1.37e-03
Degree1Errors ==
    <<Fin(243, 1000), Fin(796, 10000), Fin(215, 10000), Fin(547, 100000),
      Fin(137, 100000)>>

\* np.sqrt(assemble_scalar((uh - u_ex)**2 * dx)) at index j: the L2 norm of
\* the error of an external solve, some non-negative number; the recorded
\* value is one of them
SolverErrors(j) ==
    {EVal(1, k) : k \in 0..MaxEExp} \cup {EVal(0, 0)} \cup {Degree1Errors[j]}

\* Ns set, Es and hs preallocated with zeros, the loop about to start
DriverInit ==
    /\ Ns = NsCode
    /\ Es = Zeros(Len(NsCode))
    /\ hs = Zeros(Len(NsCode))
    /\ iLoop = 1
    /\ dLoop = 1
    /\ HeatIdle
    /\ NewtonIdle
    /\ pc = "loop"
    /\ rates = << >>
    /\ err = "none"
    /\ stdout = << >>

\* variant: the loop left one iteration early (range(len(Ns) - 1))
LoopStep_EarlyExit ==
    /\ pc = "loop"
    /\ iLoop <= Len(Ns)
    /\ \E e \in SolverErrors(iLoop) : Es' = [Es EXCEPT ![iLoop] = e]
    /\ hs' = [hs EXCEPT ![iLoop] = MeshSize(Ns, iLoop)]
    /\ stdout' = Append(stdout, <<hs'[iLoop], Es'[iLoop]>>)
    /\ iLoop' = iLoop + 1
    /\ pc' = IF iLoop >= Len(Ns) - 1 THEN "start" ELSE "loop"
    /\ UNCHANGED <<Ns, rates, err, dLoop, heatVars, newtonVars>>

\* one iteration of "for i, N in enumerate(Ns)": solve, store the error and
\* the mesh size at index i, print them (iLoop is i + 1)
LoopStep ==
    /\ pc = "loop"
    /\ iLoop <= Len(Ns)
    /\ \E e \in SolverErrors(iLoop) : Es' = [Es EXCEPT ![iLoop] = e]
    /\ hs' = [hs EXCEPT ![iLoop] = MeshSize(Ns, iLoop)]
    /\ stdout' = Append(stdout, <<hs'[iLoop], Es'[iLoop]>>)
    /\ iLoop' = iLoop + 1
    /\ pc' = IF iLoop = Len(Ns) THEN "start" ELSE "loop"
    /\ UNCHANGED <<Ns, rates, err, dLoop, heatVars, newtonVars>>

\* ------------------------------------------------------ the aggregate rate
\* a + b, a * b, a - b on finite values
FAdd(a, b) ==
    LET g == Gcd(a.den, b.den)
    IN  Fin(a.num * (b.den \div g) + b.num * (a.den \div g), (a.den \div g) * b.den)

FMul(a, b) == Fin(a.num * b.num, a.den * b.den)

FSub(a, b) == FAdd(a, Fin(-b.num, b.den))

RECURSIVE FSum(_)
FSum(s) == IF Len(s) = 0 THEN Fin(0, 1) ELSE FAdd(Head(s), FSum(Tail(s)))

\* the least-squares slope of ln(error) against ln(h) over the samples with
\* error > 0, by the closed form in the sums of x, y, xy and x^2
AggregateRate(E, h) ==
    LET idx == SelectSeq([j \in 1..Len(E) |-> j], LAMBDA j : E[j].k = "fin" /\ E[j].num > 0)
        n == Fin(Len(idx), 1)
        x == [j \in 1..Len(idx) |-> FLog(h[idx[j]])]
        y == [j \in 1..Len(idx) |-> FLog(E[idx[j]])]
        Sx == FSum(x)
        Sy == FSum(y)
        Sxy == FSum([j \in 1..Len(idx) |-> FMul(x[j], y[j])])
        Sxx == FSum([j \in 1..Len(idx) |-> FMul(x[j], x[j])])
    IN  FDiv(FSub(FMul(n, Sxy), FMul(Sx, Sy)), FSub(FMul(n, Sxx), FMul(Sx, Sx)))

\* ------------------------------------------------------- power-law errors
\* x^r for a finite x # 0 and an integer r
RECURSIVE FPow(_, _)
FPow(x, r) ==
    IF r = 0 THEN Fin(1, 1)
    ELSE IF r < 0 THEN FPow(Fin(x.den, x.num), -r)
    ELSE FMul(x, FPow(x, r - 1))

\* E_i = C h_i^r
PowerLaw(C, r, h) == [j \in 1..Len(h) |-> FMul(C, FPow(h[j], r))]

PowerConstants == {Fin(m, Pow2(c)) : m \in {1, 3}, c \in 0..MaxCExp}

PowerRates == (-MaxRate)..MaxRate

\* the arrays hold errors of the form E_i = C h_i^r over a strictly
\* decreasing h; the rates cell has not run
PowerInit ==
    /\ \E n \in 2..MaxLen :
          /\ hs \in {h \in [1..n -> HVals] : \A j \in 1..(n - 1) : Less(h[j + 1], h[j])}
          /\ \E C \in PowerConstants, r \in PowerRates : Es = PowerLaw(C, r, hs)
    /\ Ns = << >>
    /\ iLoop = 1
    /\ dLoop = 1
    /\ HeatIdle
    /\ NewtonIdle
    /\ rates = << >>
    /\ pc = "start"
    /\ err = "none"
    /\ stdout = << >>

SpecPower == PowerInit /\ [][Next]_vars

DriverNext == LoopStep \/ RatesCell

SpecDriver == DriverInit /\ [][DriverNext]_vars

\* ------------------------------------------------------- the degree study
\* for degree in [1, 2, 3]
Degrees == <<1, 2, 3>>

\* np.sqrt(assemble_scalar((uh - u_ex)**2 * dx)) of solve_poisson(Ns[j],
\* degree=d): the L2 error of an external solve, here C h^(d+1) with
\* h = 1/Ns[j] and C = 1 or 3 (the order the notebook measures: the recorded
\* rates of degree 2 are [3. 3. 3. 3.])
DegreeSolverErrors(d, j) ==
    {FMul(Fin(C, 1), FPow(MeshSize(NsCode, j), d + 1)) :
        C \in IF j <= MaxVaried THEN {1, 3} ELSE {1}}

\* the degree cell is about to run: Es, hs and rates are the ones the
\* degree-1 cells above it have left, the cell has printed nothing yet
DegreeInit ==
    /\ Ns = NsCode
    /\ Es = Degree1Errors
    /\ hs = [j \in 1..Len(NsCode) |-> MeshSize(NsCode, j)]
    /\ rates = RatesExpr(Es, hs)
    /\ iLoop = Len(NsCode) + 1
    /\ dLoop = 1
    /\ HeatIdle
    /\ NewtonIdle
    /\ pc = "alloc"
    /\ err = "none"
    /\ stdout = << >>

\* Es = np.zeros(len(Ns), ...); hs = np.zeros(len(Ns), ...) at the head of
\* the body of the degree loop
\* variant: the arrays allocated once, before the degree loop
DegreeAlloc_Hoisted ==
    /\ pc = "alloc"
    /\ dLoop <= Len(Degrees)
    /\ Es' = IF dLoop = 1 THEN Zeros(Len(Ns)) ELSE Es
    /\ hs' = IF dLoop = 1 THEN Zeros(Len(Ns)) ELSE hs
    /\ iLoop' = 1
    /\ pc' = "dloop"
    /\ UNCHANGED <<Ns, rates, err, stdout, dLoop, heatVars, newtonVars>>

DegreeAlloc ==
    /\ pc = "alloc"
    /\ dLoop <= Len(Degrees)
    /\ Es' = Zeros(Len(Ns))
    /\ hs' = Zeros(Len(Ns))
    /\ iLoop' = 1
    /\ pc' = "dloop"
    /\ UNCHANGED <<Ns, rates, err, stdout, dLoop, heatVars, newtonVars>>

\* one iteration of the inner loop: solve at the current degree, store the
\* error and the mesh size at index i, print them (stdout holds the values
\* handed to print)
DegreeLoopStep ==
    /\ pc = "dloop"
    /\ iLoop <= Len(Ns)
    /\ \E e \in DegreeSolverErrors(Degrees[dLoop], iLoop) :
          Es' = [Es EXCEPT ![iLoop] = e]
    /\ hs' = [hs EXCEPT ![iLoop] = MeshSize(Ns, iLoop)]
    /\ stdout' = Append(stdout, <<hs'[iLoop], Es'[iLoop]>>)
    /\ iLoop' = iLoop + 1
    /\ pc' = IF iLoop = Len(Ns) THEN "drates" ELSE "dloop"
    /\ UNCHANGED <<Ns, rates, err, dLoop, heatVars, newtonVars>>

\* rates = <expression>; print(f"Polynomial degree{degree:d}, Rates {rates}")
\* after the inner loop, then on to the next degree (Es and hs have the
\* length of Ns, so the expression raises nothing)
DegreeRates ==
    /\ pc = "drates"
    /\ rates' = RatesExpr(Es, hs)
    /\ stdout' = Append(stdout, <<Degrees[dLoop], rates'>>)
    /\ dLoop' = dLoop + 1
    /\ pc' = IF dLoop = Len(Degrees) THEN "ddone" ELSE "alloc"
    /\ UNCHANGED <<Es, hs, Ns, iLoop, err, heatVars, newtonVars>>

DegreeNext == DegreeAlloc \/ DegreeLoopStep \/ DegreeRates

SpecDegree == DegreeInit /\ [][DegreeNext]_vars

\* ------------------------------------------------------ the heat equation
\* Functions, vectors and matrices are held as what they were computed from.
\* A Function interpolated from u_exact is the time it was interpolated at; a
\* vector or a matrix is the sequence of the contributions accumulated into
\* it since it was last zeroed (assembly and lifting add to what is there,
\* they do not overwrite); a solution is the operator and the right-hand
\* side it was solved from.

\* Function.interpolate(u_exact) with u_exact.t = t
Interp(t) == <<"interp", t>>

\* dolfinx.Function(V), create_vector(L): all zeros
ZeroVec == << >>

\* a name not yet bound to an object
Undefined == << <<"undefined">> >>

\* dt = (T - t) / num_steps
TimeStep(t0, T, ns) == FDiv(Fin(T - t0, 1), Fin(ns, 1))

\* the cells up to the variational formulation have run: the parameters are
\* set, u_exact.t = t, u_D and u_n are interpolated from u_exact at that time
HeatInit ==
    /\ \E ns \in 1..MaxSteps, T \in 1..MaxT :
          /\ num_steps = ns
          /\ T_end = T
    /\ t_start = 0
    /\ dt = TimeStep(t_start, T_end, num_steps)
    /\ u_exact_t = Fin(t_start, 1)
    /\ u_D = Interp(u_exact_t)
    /\ u_n = Interp(u_exact_t)
    /\ uh = Undefined
    /\ b_vec = Undefined
    /\ A_mat = Undefined
    /\ ksp_op = "undefined"
    /\ n_step = 0
    /\ pc = "h_matrix"
    /\ stdout = << >>
    /\ RateIdle
    /\ NewtonIdle

\* A = assemble_matrix(a, bcs=[bc]); A.assemble(); b = create_vector(L);
\* uh = Function(V).  The form a = lhs(F) holds dt and nothing else that
\* changes.
HeatMatrix ==
    /\ pc = "h_matrix"
    /\ A_mat' = << <<"a", dt, "bc">> >>
    /\ b_vec' = ZeroVec
    /\ uh' = ZeroVec
    /\ pc' = "h_solver"
    /\ UNCHANGED <<t_start, T_end, num_steps, dt, u_exact_t, u_D, u_n, ksp_op, n_step>>
    /\ UNCHANGED <<rateVars, stdout, newtonVars>>

\* solver = KSP().create(...); solver.setOperators(A); ...: the solver keeps
\* a reference to the matrix object A
HeatSolver ==
    /\ pc = "h_solver"
    /\ ksp_op' = "A"
    /\ pc' = "h_loop"
    /\ UNCHANGED <<t_start, T_end, num_steps, dt, u_exact_t, u_D, u_n, uh, b_vec, A_mat, n_step>>
    /\ UNCHANGED <<rateVars, stdout, newtonVars>>

\* for n in range(num_steps): u_exact.t += dt; u_D.interpolate(u_exact);
\* u_D.vector.ghostUpdate(INSERT, FORWARD)
\* variant: the time advanced, the boundary data left as it was
HeatTime_StaleBoundary ==
    /\ pc = "h_loop"
    /\ n_step < num_steps
    /\ u_exact_t' = FAdd(u_exact_t, dt)
    /\ pc' = "h_zero"
    /\ UNCHANGED <<t_start, T_end, num_steps, dt, u_D, u_n, uh, b_vec, A_mat, ksp_op, n_step>>
    /\ UNCHANGED <<rateVars, stdout, newtonVars>>

\* variant: the loop runs while u_exact.t <= T
HeatTime_WhileNotPast ==
    /\ pc = "h_loop"
    /\ ~Less(Fin(T_end, 1), u_exact_t)
    /\ u_exact_t' = FAdd(u_exact_t, dt)
    /\ u_D' = Interp(u_exact_t')
    /\ pc' = "h_zero"
    /\ UNCHANGED <<t_start, T_end, num_steps, dt, u_n, uh, b_vec, A_mat, ksp_op, n_step>>
    /\ UNCHANGED <<rateVars, stdout, newtonVars>>

HeatTime ==
    /\ pc = "h_loop"
    /\ n_step < num_steps
    /\ u_exact_t' = FAdd(u_exact_t, dt)
    /\ u_D' = Interp(u_exact_t')
    /\ pc' = "h_zero"
    /\ UNCHANGED <<t_start, T_end, num_steps, dt, u_n, uh, b_vec, A_mat, ksp_op, n_step>>
    /\ UNCHANGED <<rateVars, stdout, newtonVars>>

\* with b.localForm() as loc_b: loc_b.set(0)
HeatZero ==
    /\ pc = "h_zero"
    /\ b_vec' = ZeroVec
    /\ pc' = "h_assemble"
    /\ UNCHANGED <<t_start, T_end, num_steps, dt, u_exact_t, u_D, u_n, uh, A_mat, ksp_op, n_step>>
    /\ UNCHANGED <<rateVars, stdout, newtonVars>>

\* assemble_vector(b, L): adds the assembled L = rhs(F) to b; L holds u_n,
\* dt and the constant f
\* variant: the matrix assembled again with the vector, into the same A
HeatAssemble_WithMatrix ==
    /\ pc = "h_assemble"
    /\ b_vec' = Append(b_vec, <<"L", u_n, dt>>)
    /\ A_mat' = Append(A_mat, <<"a", dt, "bc">>)
    /\ pc' = "h_lift"
    /\ UNCHANGED <<t_start, T_end, num_steps, dt, u_exact_t, u_D, u_n, uh, ksp_op, n_step>>
    /\ UNCHANGED <<rateVars, stdout, newtonVars>>

HeatAssemble ==
    /\ pc = "h_assemble"
    /\ b_vec' = Append(b_vec, <<"L", u_n, dt>>)
    /\ pc' = "h_lift"
    /\ UNCHANGED <<t_start, T_end, num_steps, dt, u_exact_t, u_D, u_n, uh, A_mat, ksp_op, n_step>>
    /\ UNCHANGED <<rateVars, stdout, newtonVars>>

\* apply_lifting(b, [a], [[bc]]): subtracts from b the columns of a times
\* the boundary values, the values of u_D
HeatLift ==
    /\ pc = "h_lift"
    /\ b_vec' = Append(b_vec, <<"lifting", <<"a", dt, "bc">>, u_D>>)
    /\ pc' = "h_ghost"
    /\ UNCHANGED <<t_start, T_end, num_steps, dt, u_exact_t, u_D, u_n, uh, A_mat, ksp_op, n_step>>
    /\ UNCHANGED <<rateVars, stdout, newtonVars>>

\* b.ghostUpdate(addv=ADD_VALUES, mode=REVERSE)
HeatGhost ==
    /\ pc = "h_ghost"
    /\ b_vec' = Append(b_vec, <<"ghostUpdate", "ADD_VALUES", "REVERSE">>)
    /\ pc' = "h_setbc"
    /\ UNCHANGED <<t_start, T_end, num_steps, dt, u_exact_t, u_D, u_n, uh, A_mat, ksp_op, n_step>>
    /\ UNCHANGED <<rateVars, stdout, newtonVars>>

\* set_bc(b, [bc]): writes the values of u_D into the boundary rows of b
HeatSetBC ==
    /\ pc = "h_setbc"
    /\ b_vec' = Append(b_vec, <<"set_bc", u_D>>)
    /\ pc' = "h_solve"
    /\ UNCHANGED <<t_start, T_end, num_steps, dt, u_exact_t, u_D, u_n, uh, A_mat, ksp_op, n_step>>
    /\ UNCHANGED <<rateVars, stdout, newtonVars>>

\* the matrix the solver solves with: the current content of the object it
\* was given
Operator == IF ksp_op = "A" THEN A_mat ELSE Undefined

\* solver.solve(b, uh.vector); uh.vector.ghostUpdate(INSERT_VALUES, FORWARD)
HeatSolve ==
    /\ pc = "h_solve"
    /\ uh' = <<"solve", Operator, b_vec>>
    /\ pc' = "h_copy"
    /\ UNCHANGED <<t_start, T_end, num_steps, dt, u_exact_t, u_D, u_n, b_vec, A_mat, ksp_op, n_step>>
    /\ UNCHANGED <<rateVars, stdout, newtonVars>>

\* loc.copy(loc_n): Vec.copy(result) copies uh.vector into u_n.vector; the
\* iteration ends
\* variant: the copy the other way round (loc_n.copy(loc))
HeatCopy_Reversed ==
    /\ pc = "h_copy"
    /\ uh' = u_n
    /\ n_step' = n_step + 1
    /\ pc' = "h_loop"
    /\ UNCHANGED <<t_start, T_end, num_steps, dt, u_exact_t, u_D, u_n, b_vec, A_mat, ksp_op>>
    /\ UNCHANGED <<rateVars, stdout, newtonVars>>

HeatCopy ==
    /\ pc = "h_copy"
    /\ u_n' = uh
    /\ n_step' = n_step + 1
    /\ pc' = "h_loop"
    /\ UNCHANGED <<t_start, T_end, num_steps, dt, u_exact_t, u_D, uh, b_vec, A_mat, ksp_op>>
    /\ UNCHANGED <<rateVars, stdout, newtonVars>>

\* the cell after the loop: u_ex.interpolate(u_exact); the L2 error of uh
\* against u_ex is printed (stdout holds what the error is computed from)
HeatErrorCheck ==
    /\ pc = "h_loop"
    /\ n_step >= num_steps
    /\ stdout' = Append(stdout, <<"L2-error", uh, Interp(u_exact_t)>>)
    /\ pc' = "h_done"
    /\ UNCHANGED <<heatVars, rateVars, newtonVars>>

HeatNext ==
    \/ HeatMatrix
    \/ HeatSolver
    \/ HeatTime
    \/ HeatZero
    \/ HeatAssemble
    \/ HeatLift
    \/ HeatGhost
    \/ HeatSetBC
    \/ HeatSolve
    \/ HeatCopy
    \/ HeatErrorCheck

SpecHeat == HeatInit /\ [][HeatNext]_vars

\* the cells run one after the other and the loop body runs to its end:
\* a step that can be taken is taken
SpecHeatFair == SpecHeat /\ WF_vars(HeatNext)

\* ------------------------------------------- the nonlinear Poisson problem
\* Vectors and matrices are held as in the heat equation: as the sequence of
\* the contributions added since the last zeroing.  The content of uh.vector
\* is one of the iterates 0 .. MaxX.  The forms L = F and a = dF/du hold the
\* Function uh; the solver hands the callbacks x = uh.vector (solve is called
\* with uh.vector), so x and the coefficient of the forms are one vector.

\* NonlinearPDEProblem.F(x, b) with uh.vector = u: the content of b after
\* the call
\* variant: the residual vector not reset before the assembly
FCallback_NoReset(x, u, bv) ==
    bv \o << <<"L", u>>,
             <<"lifting", <<"a", u, "bc">>, x, -1>>,
             <<"ghostUpdate", "ADD", "REVERSE">>,
             <<"set_bc", x, -1>> >>

FCallback(x, u, bv) ==
    LET b0 == ZeroVec
        b1 == Append(b0, <<"L", u>>)
        b2 == Append(b1, <<"lifting", <<"a", u, "bc">>, x, -1>>)
        b3 == Append(b2, <<"ghostUpdate", "ADD", "REVERSE">>)
    IN  Append(b3, <<"set_bc", x, -1>>)

\* NonlinearPDEProblem.J(x, A) with uh.vector = u: the content of A after
\* the call
\* variant: the matrix entries not zeroed before the assembly
JCallback_NoZero(x, u, Am) == Append(Am, <<"a", u, "bc">>)

JCallback(x, u, Am) ==
    LET A0 == ZeroVec
    IN  Append(A0, <<"a", u, "bc">>)

XVals == 0..MaxX

\* problem = NonlinearPDEProblem(F, uh, [bc]) and the solver are set up:
\* uh is the zero Function, problem.vector and problem.matrix are created
NewtonInit ==
    /\ uh_vector = 0
    /\ res_vec = ZeroVec
    /\ jac_mat = ZeroVec
    /\ n_iter = 0
    /\ pc = "n_solve"
    /\ stdout = << >>
    /\ RateIdle
    /\ HeatIdle

\* the solver calls problem.F(x, problem.vector) with x = uh.vector
NewtonF ==
    /\ pc = "n_solve"
    /\ res_vec' = FCallback(uh_vector, uh_vector, res_vec)
    /\ UNCHANGED <<uh_vector, jac_mat, n_iter, pc, stdout, rateVars, heatVars>>

\* the solver calls problem.J(x, problem.matrix) with x = uh.vector
NewtonJ ==
    /\ pc = "n_solve"
    /\ jac_mat' = JCallback(uh_vector, uh_vector, jac_mat)
    /\ UNCHANGED <<uh_vector, res_vec, n_iter, pc, stdout, rateVars, heatVars>>

\* the solver updates x = uh.vector in place with the Newton step it has
\* solved for: one more iteration
NewtonUpdate ==
    /\ pc = "n_solve"
    /\ n_iter < MaxNewton
    /\ uh_vector' \in XVals
    /\ n_iter' = n_iter + 1
    /\ UNCHANGED <<res_vec, jac_mat, pc, stdout, rateVars, heatVars>>

\* n, converged = solver.solve(uh.vector) returns;
\* print(f"Number of interations: {n:d}")
NewtonReturn ==
    /\ pc = "n_solve"
    /\ stdout' = Append(stdout, n_iter)
    /\ pc' = "n_done"
    /\ UNCHANGED <<newtonVars, rateVars, heatVars>>

NewtonNext == NewtonF \/ NewtonJ \/ NewtonUpdate \/ NewtonReturn

SpecNewton == NewtonInit /\ [][NewtonNext]_vars

\* ------------------------------------------------ vocabulary of the claims
N == Len(Es)

\* the cell has run (it returned or raised)
Ran == pc # "start"

\* pair i is made of samples i and i+1 (1-based), i.e. of the samples the
\* prose numbers i-1 and i
Pairs == 1..(N - 1)

HDecreasing == \A i \in Pairs : Less(hs[i + 1], hs[i])

NonNegErrors == \A i \in 1..N : Es[i].num >= 0

IsZero(x) == IsFin(x) /\ x.num = 0

IsPos(x) == IsFin(x) /\ x.num > 0

IsNeg(x) == IsFin(x) /\ x.num < 0

\* the k of an input value +-2^-k
KOf(x) == CHOOSE k \in 0..(MaxHExp + MaxEExp) : x.den = Pow2(k)

\* r is the real number ln(E[i+1]/E[i]) / ln(h[i+1]/h[i]) of a pair with
\* non-zero errors of one sign and different h, computed from the exponents of
\* the inputs: ln(|E[i+1]|/|E[i]|) = (KOf(E[i]) - KOf(E[i+1])) ln 2, and the
\* same for h
IsLogRatio(r, i) ==
    /\ IsFin(r)
    /\ KOf(hs[i]) # KOf(hs[i + 1])
    /\ r.num * (KOf(hs[i]) - KOf(hs[i + 1])) = r.den * (KOf(Es[i]) - KOf(Es[i + 1]))

\* the formula r = ln(E_i/E_{i-1}) / ln(h_i/h_{i-1}) applied to one pair
PairRate(i) == FDiv(FLog(FDiv(Es[i + 1], Es[i])), FLog(FDiv(hs[i + 1], hs[i])))

ReturnedAll == pc = "done" /\ err = "none" /\ Len(rates) = N - 1

\* ------------------------------------------------------------------ claims

\* C1 (as stated): every input whose h values are not strictly decreasing
\* fails with InvalidOrderingError before any rate is computed, also when the
\* input contains a zero error.
Orig_C1 ==
    (Ran /\ N >= 2 /\ ~HDecreasing) =>
        (pc = "raised" /\ err = "InvalidOrderingError" /\ rates = << >> /\ stdout = << >>)

\* C1 (amended): for every input of n >= 2 samples whose h values are not
\* strictly decreasing, the rate computation raises no error and returns n-1
\* values, also when the input contains a zero error; a pair with equal h
\* gives a non-finite value (inf, -inf or NaN) and a pair with increasing h
\* and positive errors gives the log-ratio value of the formula.
Thm_C1 ==
    (Ran /\ N >= 2 /\ ~HDecreasing) =>
        /\ ReturnedAll
        /\ \A i \in Pairs :
              /\ hs[i + 1] = hs[i] => ~IsFin(rates[i])
              /\ (Less(hs[i], hs[i + 1]) /\ IsPos(Es[i]) /\ IsPos(Es[i + 1]))
                    => IsLogRatio(rates[i], i)

Wit_C1 ==
    /\ pc = "done"
    /\ N >= 2
    /\ \E i \in Pairs : hs[i + 1] = hs[i]
    /\ \E i \in Pairs : Less(hs[i], hs[i + 1]) /\ IsPos(Es[i]) /\ IsZero(Es[i + 1])

\* C2: for every valid input of n >= 2 samples (h strictly decreasing, errors
\* non-negative) exactly n-1 values are returned, and the value at position i
\* is the pair formula applied to samples i-1 and i only.
Thm_C2 ==
    (Ran /\ N >= 2 /\ HDecreasing /\ NonNegErrors) =>
        /\ ReturnedAll
        /\ \A i \in Pairs : rates[i] = PairRate(i)

Wit_C2 ==
    /\ pc = "done"
    /\ N >= 3
    /\ HDecreasing
    /\ \A i \in 1..N : IsPos(Es[i])
    /\ Len(rates) = N - 1
    /\ rates[1] # rates[2]

\* a pair with exactly one zero error
OneZero(i) == IsZero(Es[i]) # IsZero(Es[i + 1])

\* C3 (as stated): with valid h and non-negative errors, an input with a
\* pair in which exactly one error is zero fails with DegenerateInputError.
Orig_C3 ==
    (Ran /\ HDecreasing /\ NonNegErrors /\ \E i \in Pairs : OneZero(i)) =>
        (pc = "raised" /\ err = "DegenerateInputError")

\* C3 (amended): with valid h and non-negative errors, an input with a pair
\* in which exactly one error is zero does not fail; the value returned for
\* that pair is +inf when the later error is the zero one and -inf when the
\* earlier error is the zero one.
Thm_C3 ==
    (Ran /\ HDecreasing /\ NonNegErrors /\ \E i \in Pairs : OneZero(i)) =>
        /\ ReturnedAll
        /\ \A i \in Pairs :
              OneZero(i) => rates[i] = (IF IsZero(Es[i + 1]) THEN Inf(1) ELSE Inf(-1))

Wit_C3 ==
    /\ pc = "done"
    /\ HDecreasing
    /\ NonNegErrors
    /\ \E i \in Pairs : OneZero(i) /\ IsZero(Es[i])
    /\ \E i \in Pairs : OneZero(i) /\ IsZero(Es[i + 1])

BothZero(i) == IsZero(Es[i]) /\ IsZero(Es[i + 1])

\* C4 (as stated): an input with a pair of two zero errors fails with
\* DegenerateInputError; no +inf, NaN or numeric rate is returned for it.
Orig_C4 ==
    (Ran /\ HDecreasing /\ NonNegErrors /\ \E i \in Pairs : BothZero(i)) =>
        (pc = "raised" /\ err = "DegenerateInputError" /\ rates = << >>)

\* C4 (amended): an input (valid h, non-negative errors) with a pair of two
\* zero errors does not fail; the value returned for that pair is NaN.
Thm_C4 ==
    (Ran /\ HDecreasing /\ NonNegErrors /\ \E i \in Pairs : BothZero(i)) =>
        /\ ReturnedAll
        /\ \A i \in Pairs : BothZero(i) => IsNaN(rates[i])

Wit_C4 ==
    /\ pc = "done"
    /\ N = 2
    /\ HDecreasing
    /\ BothZero(1)
    /\ IsNaN(rates[1])

\* a pair for which a logarithm of the formula is undefined
Degenerate(i) == IsZero(Es[i]) \/ IsZero(Es[i + 1])

\* C5 (as stated): whenever a pair is degenerate the call returns no rate
\* sequence at all.
Orig_C5 ==
    (Ran /\ HDecreasing /\ NonNegErrors /\ \E i \in Pairs : Degenerate(i)) =>
        (pc = "raised" /\ rates = << >> /\ stdout = << >>)

\* C5 (amended): whenever a pair is degenerate (valid h, non-negative
\* errors) the call still returns the full sequence of n-1 values: a
\* non-finite value at the index of every degenerate pair and the log-ratio
\* value at the index of every other pair.
Thm_C5 ==
    (Ran /\ HDecreasing /\ NonNegErrors /\ \E i \in Pairs : Degenerate(i)) =>
        /\ ReturnedAll
        /\ stdout = <<rates>>
        /\ \A i \in Pairs :
              IF Degenerate(i) THEN ~IsFin(rates[i]) ELSE IsLogRatio(rates[i], i)

Wit_C5 ==
    /\ pc = "done"
    /\ N >= 3
    /\ HDecreasing
    /\ NonNegErrors
    /\ \E i \in Pairs : Degenerate(i)
    /\ \E i \in Pairs : ~Degenerate(i) /\ IsFin(rates[i])

\* C6 (as stated): every input with a negative error fails with
\* NegativeErrorError before any rate is computed.
Orig_C6 ==
    (Ran /\ \E i \in 1..N : IsNeg(Es[i])) =>
        (pc = "raised" /\ err = "NegativeErrorError" /\ rates = << >> /\ stdout = << >>)

\* C6 (amended): for every input with a negative error the rate computation
\* raises no error and returns one value per pair; a pair with one negative
\* and one positive error gives NaN, and a pair of two negative errors with
\* different h gives the log-ratio value of their absolute values.
Thm_C6 ==
    (Ran /\ \E i \in 1..N : IsNeg(Es[i])) =>
        /\ ReturnedAll
        /\ \A i \in Pairs :
              /\ (Sign(Es[i]) * Sign(Es[i + 1]) = -1) => IsNaN(rates[i])
              /\ (IsNeg(Es[i]) /\ IsNeg(Es[i + 1]) /\ hs[i] # hs[i + 1])
                    => IsLogRatio(rates[i], i)

Wit_C6 ==
    /\ pc = "done"
    /\ N >= 3
    /\ \E i \in Pairs : IsNeg(Es[i]) /\ IsPos(Es[i + 1])
    /\ \E i \in Pairs : IsNeg(Es[i]) /\ IsNeg(Es[i + 1]) /\ Es[i] # Es[i + 1]
                          /\ hs[i] # hs[i + 1]

\* C7 (as stated): every input with fewer than 2 samples fails with
\* InsufficientDataError rather than returning an empty rate sequence.
Orig_C7 == (Ran /\ N < 2) => (pc = "raised" /\ err = "InsufficientDataError")

\* C7 (amended): for every input with fewer than 2 samples (length 0 or 1)
\* the rate computation raises no error and returns (and prints) the empty
\* rate sequence.
Thm_C7 ==
    (Ran /\ N < 2) =>
        (pc = "done" /\ err = "none" /\ rates = << >> /\ stdout = << << >> >>)

Wit_C7 == pc = "done" /\ N = 1 /\ stdout = << << >> >>

\* C10: for every consecutive pair with error[i] > error[i-1] > 0 and
\* h[i] < h[i-1] the call does not fail and the value returned for the pair is
\* the log-ratio value itself, which is negative (not clamped, dropped or
\* turned into an error).
Thm_C10 ==
    Ran =>
        \A i \in Pairs :
            (IsPos(Es[i]) /\ Less(Es[i], Es[i + 1]) /\ Less(hs[i + 1], hs[i])) =>
                /\ ReturnedAll
                /\ IsLogRatio(rates[i], i)
                /\ rates[i].num < 0

Wit_C10 ==
    /\ pc = "done"
    /\ \E i \in Pairs :
          /\ IsPos(Es[i]) /\ Less(Es[i], Es[i + 1]) /\ Less(hs[i + 1], hs[i])
          /\ IsFin(rates[i])
          /\ rates[i].num < 0

\* errors positive and strictly decreasing with index
ErrorsDecreasing ==
    /\ \A i \in 1..N : IsPos(Es[i])
    /\ \A i \in Pairs : Less(Es[i + 1], Es[i])

\* C11: for every input with strictly decreasing h and strictly decreasing
\* positive errors, every pairwise rate returned is strictly positive.
Thm_C11 ==
    (Ran /\ N >= 2 /\ HDecreasing /\ ErrorsDecreasing) =>
        /\ ReturnedAll
        /\ \A i \in Pairs : IsFin(rates[i]) /\ rates[i].num > 0

Wit_C11 ==
    /\ pc = "done"
    /\ N >= 2
    /\ HDecreasing
    /\ ErrorsDecreasing
    /\ \A i \in Pairs : IsFin(rates[i]) /\ rates[i].num > 0

\* -x for a finite x
Neg(x) == Fin(-x.num, x.den)

\* the pair formula with the orientation of the error quotient alone swapped
PairRateErrSwapped(i) ==
    FDiv(FLog(FDiv(Es[i], Es[i + 1])), FLog(FDiv(hs[i + 1], hs[i])))

\* the pair formula with the orientation of the h quotient alone swapped
PairRateHSwapped(i) ==
    FDiv(FLog(FDiv(Es[i + 1], Es[i])), FLog(FDiv(hs[i], hs[i + 1])))

\* C13: each pairwise rate is ln(error[i]/error[i-1]) / ln(h[i]/h[i-1]),
\* later over earlier in both quotients; with the orientation of only one
\* quotient swapped the value would be the negated rate.
Thm_C13 ==
    Ran =>
        \A i \in Pairs :
            (IsPos(Es[i]) /\ IsPos(Es[i + 1]) /\ hs[i] # hs[i + 1]) =>
                /\ ReturnedAll
                /\ IsLogRatio(rates[i], i)
                /\ rates[i] = PairRate(i)
                /\ PairRateErrSwapped(i) = Neg(rates[i])
                /\ PairRateHSwapped(i) = Neg(rates[i])

Wit_C13 ==
    /\ pc = "done"
    /\ \E i \in Pairs :
          /\ IsPos(Es[i]) /\ IsPos(Es[i + 1]) /\ Less(hs[i + 1], hs[i])
          /\ IsFin(rates[i])
          /\ rates[i].num > 0
          /\ rates[i].den > 1
          /\ PairRateHSwapped(i) # rates[i]

\* C19: the rate computation performs no validation and has no error
\* outcome: for any two arrays of one length n >= 1 it evaluates the log-ratio
\* expression on every consecutive pair and prints the n-1 values, whatever
\* they are (inf, -inf, NaN or negative values included); for n = 0 the
\* printed result is empty.
Thm_C19 ==
    Ran =>
        /\ pc = "done"
        /\ err = "none"
        /\ Len(rates) = (IF N = 0 THEN 0 ELSE N - 1)
        /\ \A i \in Pairs : rates[i] = PairRate(i)
        /\ stdout = <<rates>>

Wit_C19 ==
    /\ pc = "done"
    /\ N = 3
    /\ IsNaN(rates[1])
    /\ rates[2] = Inf(-1)
    /\ ~Less(hs[2], hs[1])
    /\ stdout = <<rates>>

\* C16: the rate computation does not change the sample sequence it is
\* given: every step leaves the length, order and values of Es and hs as they
\* were (zero errors included).
Thm_C16 == [][Es' = Es /\ hs' = hs]_vars

Wit_C16 ==
    /\ pc = "done"
    /\ N = MaxLen
    /\ \E i \in 1..N : IsZero(Es[i])
    /\ \E i \in 1..N : IsNeg(Es[i])
    /\ Len(rates) = N - 1

\* C20: the driver loop sets hs[i] = 1/Ns[i] at every index, so for the
\* strictly increasing positive resolutions Ns the filled part of hs is
\* strictly positive and strictly decreasing with index, and so is the whole
\* of hs when it reaches the rate computation.
Thm_C20 ==
    /\ \A j \in 1..(Len(Ns) - 1) : 0 < Ns[j] /\ Ns[j] < Ns[j + 1]
    /\ \A j \in 1..(iLoop - 1) : hs[j] = Fin(1, Ns[j]) /\ IsPos(hs[j])
    /\ \A j \in 1..(iLoop - 2) : Less(hs[j + 1], hs[j])
    /\ pc \in {"start", "done"} =>
          (iLoop = Len(Ns) + 1 /\ Len(hs) = Len(Ns) /\ HDecreasing)

Wit_C20 ==
    /\ pc = "done"
    /\ Len(rates) = Len(Ns) - 1
    /\ HDecreasing
    /\ hs[1] = Fin(1, 4)
    /\ hs[Len(hs)] = Fin(1, 64)

\* |x - p/q| <= 1/100 for a finite x
Near(x, p, q) ==
    /\ IsFin(x)
    /\ 100 * (x.num * q - p * x.den) <= x.den * q
    /\ 100 * (p * x.den - x.num * q) <= x.den * q

\* p/q <= x <= r/s for a finite x
Within(x, p, q, r, s) ==
    /\ IsFin(x)
    /\ p * x.den <= x.num * q
    /\ x.num * s <= r * x.den

\* the degree-1 data has been measured and its rates computed
Degree1Done == pc = "done" /\ Es = Degree1Errors /\ Len(rates) = 4

\* the pairwise rates of the degree-1 data are [1.61, 1.89, 1.97, 1.99] to
\* within 0.01
Degree1Rates ==
    /\ Near(rates[1], 161, 100)
    /\ Near(rates[2], 189, 100)
    /\ Near(rates[3], 197, 100)
    /\ Near(rates[4], 199, 100)

\* C14 (as stated): for the degree-1 data the pairwise rates are about
\* [1.61, 1.89, 1.97, 1.99] and the least-squares slope of ln(error) against
\* ln(h) over the five samples lies between 1.9 and 2.0.
Orig_C14 ==
    Degree1Done =>
        /\ Degree1Rates
        /\ Within(AggregateRate(Es, hs), 19, 10, 2, 1)

\* C14 (amended): for the degree-1 data the pairwise rates are about
\* [1.61, 1.89, 1.97, 1.99] (to within 0.01) and the least-squares slope of
\* ln(error) against ln(h) over the five samples is about 1.88 (between 1.87
\* and 1.89), below every pairwise rate but the first.
Thm_C14 ==
    (pc = "done" /\ Es = Degree1Errors) =>
        /\ ReturnedAll
        /\ hs = [j \in 1..5 |-> Fin(1, Pow2(j + 1))]
        /\ Degree1Rates
        /\ Within(AggregateRate(Es, hs), 187, 100, 189, 100)

Wit_C14 ==
    /\ Degree1Done
    /\ Degree1Rates
    /\ Less(AggregateRate(Es, hs), rates[2])

\* C12: for every sequence generated from error[i] = C h[i]^r with C > 0, a
\* fixed r and strictly decreasing h, every pairwise rate returned equals r
\* and the aggregate rate equals r as well, whatever C and the spacing of h.
Thm_C12 ==
    pc = "done" =>
        \A C \in PowerConstants, r \in PowerRates :
            Es = PowerLaw(C, r, hs) =>
                /\ ReturnedAll
                /\ \A i \in Pairs : rates[i] = Fin(r, 1)
                /\ AggregateRate(Es, hs) = Fin(r, 1)

Wit_C12 ==
    /\ pc = "done"
    /\ N = 3
    /\ hs = <<Fin(1, 1), Fin(1, 2), Fin(1, 4)>>
    /\ Es = PowerLaw(Fin(3, 2), 2, hs)
    /\ rates = <<Fin(2, 1), Fin(2, 1)>>
\* slot j of the preallocated arrays has been written by the loop: hs[j] is
\* no longer the zero of np.zeros (1/Ns[j] is never zero)
Written(j) == ~IsZero(hs[j])

\* C21: in the convergence driver the loop writes Es[i] and hs[i] in the same
\* iteration, at the index of the iteration only and in increasing order, each
\* slot being unwritten before its iteration and written after it, so every
\* index is written exactly once; the rates are computed only when the loop
\* is over and every slot has been written.
Thm_C21 ==
    /\ [](\A j \in 1..Len(Ns) : Written(j) <=> j < iLoop)
    /\ [][/\ pc = "loop" =>
              /\ iLoop \in 1..Len(Ns)
              /\ iLoop' = iLoop + 1
              /\ ~Written(iLoop)
              /\ hs'[iLoop] = Fin(1, Ns[iLoop])
              /\ Es'[iLoop] \in SolverErrors(iLoop)
              /\ \A j \in 1..Len(Ns) :
                    j # iLoop => (Es'[j] = Es[j] /\ hs'[j] = hs[j])
              /\ rates' = rates
          /\ rates' # rates =>
              /\ pc = "start"
              /\ iLoop = Len(Ns) + 1
              /\ \A j \in 1..Len(Ns) : Written(j)
              /\ rates' = RatesExpr(Es, hs)
              /\ Es' = Es /\ hs' = hs]_vars

Wit_C21 ==
    /\ pc = "done"
    /\ iLoop = Len(Ns) + 1
    /\ \A j \in 1..Len(Ns) : Written(j)
    /\ IsZero(Es[2])
    /\ Len(rates) = Len(Ns) - 1
    /\ Len(stdout) = Len(Ns) + 1
\* the number of lines one degree prints: one per sample and the rates line
DegreeLines == Len(Ns) + 1

\* the errors held in Es were all measured for the k-th degree and for no
\* other degree
MeasuredFor(k) ==
    \A j \in 1..Len(Ns) :
        \A d \in 1..Len(Degrees) :
            Es[j] \in DegreeSolverErrors(Degrees[d], j) <=> d = k

\* C22: in the multi-degree study Es and hs are allocated afresh for each
\* degree (a slot not yet written in the current degree is zero, a written
\* one holds an error of a solve of the current degree); one rates line is
\* printed per degree, after the len(Ns) samples of that degree, and the
\* rates on it are the expression applied to the errors measured for that
\* degree, none of them an error measured for another degree; rates change
\* at no other step.
Thm_C22 ==
    /\ [](/\ pc \in {"dloop", "drates"} =>
              /\ Len(Es) = Len(Ns) /\ Len(hs) = Len(Ns)
              /\ \A j \in 1..Len(Ns) :
                    IF j < iLoop
                    THEN Es[j] \in DegreeSolverErrors(Degrees[dLoop], j) /\ Written(j)
                    ELSE IsZero(Es[j]) /\ IsZero(hs[j])
              /\ Len(stdout) = (dLoop - 1) * DegreeLines + iLoop - 1
          /\ pc = "drates" => iLoop = Len(Ns) + 1
          /\ pc \in {"alloc", "ddone"} => Len(stdout) = (dLoop - 1) * DegreeLines
          /\ (pc \in {"alloc", "ddone"} /\ dLoop > 1) =>
              /\ MeasuredFor(dLoop - 1)
              /\ stdout[Len(stdout)] = <<Degrees[dLoop - 1], rates>>)
    /\ [][/\ pc = "drates" =>
              /\ MeasuredFor(dLoop)
              /\ rates' = RatesExpr(Es, hs)
              /\ stdout' = Append(stdout, <<Degrees[dLoop], rates'>>)
              /\ dLoop' = dLoop + 1
              /\ Es' = Es /\ hs' = hs
          /\ pc # "drates" => (rates' = rates /\ dLoop' = dLoop)
          /\ pc = "dloop" => stdout' = Append(stdout, <<hs'[iLoop], Es'[iLoop]>>)
          /\ pc = "alloc" => stdout' = stdout]_vars

Wit_C22 ==
    /\ pc = "ddone"
    /\ dLoop = Len(Degrees) + 1
    /\ Len(stdout) = Len(Degrees) * DegreeLines
    /\ stdout[2 * DegreeLines] = <<2, [j \in 1..4 |-> Fin(3, 1)]>>
    /\ stdout[DegreeLines][2] # stdout[2 * DegreeLines][2]
    /\ stdout[3 * DegreeLines][2][1] # Fin(4, 1)
\* ---------------------------------------------- claims: the heat equation
\* the positions inside the body of the time-stepping loop, in program order
BodySteps == <<"h_zero", "h_assemble", "h_lift", "h_ghost", "h_setbc", "h_solve", "h_copy">>

InBody == \E k \in 1..Len(BodySteps) : pc = BodySteps[k]

\* the time t + k dt in exact arithmetic
TimeAt(k) == Fin(t_start * num_steps + k * (T_end - t_start), num_steps)

\* the kinds of the contributions b holds, in the order they were added
BKinds == [j \in 1..Len(b_vec) |-> b_vec[j][1]]

BOrder == <<"L", "lifting", "ghostUpdate", "set_bc">>

\* C23: each iteration of the time-stepping loop advances u_exact.t by dt and
\* re-interpolates u_D, zeroes b, assembles L into b, applies the lifting,
\* does the reverse ghost update, sets the boundary values, solves for uh and
\* copies uh into u_n, in this order: throughout the body u_D is at the new
\* time level, b is zero when L is assembled, and b holds exactly the
\* contributions of the steps done so far in this iteration.
Thm_C23 ==
    /\ [](/\ InBody =>
              /\ u_exact_t = TimeAt(n_step + 1)
              /\ u_D = Interp(TimeAt(n_step + 1))
          /\ pc = "h_assemble" => b_vec = ZeroVec
          /\ pc = "h_lift" => BKinds = SubSeq(BOrder, 1, 1)
          /\ pc = "h_ghost" => BKinds = SubSeq(BOrder, 1, 2)
          /\ pc = "h_setbc" => BKinds = SubSeq(BOrder, 1, 3)
          /\ pc \in {"h_solve", "h_copy"} =>
              /\ BKinds = BOrder
              /\ b_vec[2][3] = u_D
              /\ b_vec[4][2] = u_D
          /\ pc = "h_copy" => uh = <<"solve", A_mat, b_vec>>
          /\ (pc \in {"h_loop", "h_done"} /\ n_step > 0) =>
              /\ u_n = uh
              /\ uh = <<"solve", A_mat, b_vec>>)
    /\ [][/\ (pc = "h_loop" /\ pc' # "h_done") => pc' = BodySteps[1]
          /\ \A k \in 1..(Len(BodySteps) - 1) :
                pc = BodySteps[k] => pc' = BodySteps[k + 1]
          /\ pc = "h_copy" => (pc' = "h_loop" /\ n_step' = n_step + 1)]_vars

Wit_C23 ==
    /\ pc = "h_copy"
    /\ n_step = 2
    /\ num_steps = 3
    /\ u_D = Interp(TimeAt(3))
    /\ BKinds = BOrder
    /\ u_n # uh

\* the discrete solution at time level k: the interpolated initial condition
\* for k = 0, and for k > 0 the solve with the matrix assembled once and the
\* right-hand side made of L with the solution of level k - 1 and of the
\* boundary data of level k
RECURSIVE Sol(_)
Sol(k) ==
    IF k = 0 THEN Interp(Fin(t_start, 1))
    ELSE <<"solve", << <<"a", dt, "bc">> >>,
           << <<"L", Sol(k - 1), dt>>,
              <<"lifting", <<"a", dt, "bc">>, Interp(TimeAt(k))>>,
              <<"ghostUpdate", "ADD_VALUES", "REVERSE">>,
              <<"set_bc", Interp(TimeAt(k))>> >> >>

\* C24: at the end of every iteration u_n holds the uh just solved: the
\* right-hand side of iteration n (counted from 0) is assembled from the
\* solution of level n, the interpolated initial condition for n = 0, and the
\* solve of that iteration gives the solution of level n + 1, which u_n
\* holds from the end of the iteration on.
Thm_C24 ==
    /\ pc \notin {"h_matrix", "h_solver"} => u_n = Sol(n_step)
    /\ pc \in {"h_lift", "h_ghost", "h_setbc", "h_solve", "h_copy"} =>
          b_vec[1] = <<"L", Sol(n_step), dt>>
    /\ pc = "h_copy" => uh = Sol(n_step + 1)
    /\ (pc \in {"h_loop", "h_done"} /\ n_step > 0) => (uh = Sol(n_step) /\ u_n = uh)

Wit_C24 ==
    /\ pc = "h_lift"
    /\ n_step = 2
    /\ num_steps = 4
    /\ u_n = uh
    /\ b_vec[1][2] = Sol(2)
    /\ Sol(2) # Sol(1)

\* C25: the matrix A is assembled once, before the time-stepping loop: A
\* changes only in the cell that assembles it and the solver's operator only
\* in the cell that sets it, from then on A holds that one assembly, and a
\* step of the loop changes nothing but b, uh, u_n, u_D, u_exact.t and the
\* loop variable.
Thm_C25 ==
    /\ [](pc \notin {"h_matrix"} => A_mat = << <<"a", dt, "bc">> >>)
    /\ [](pc \notin {"h_matrix", "h_solver"} => Operator = A_mat)
    /\ [][/\ A_mat' # A_mat => pc = "h_matrix"
          /\ ksp_op' # ksp_op => pc = "h_solver"
          /\ (InBody \/ (pc = "h_loop" /\ pc' # "h_done")) =>
                UNCHANGED <<A_mat, ksp_op, t_start, T_end, num_steps, dt, stdout,
                            rateVars, newtonVars>>]_vars

Wit_C25 ==
    /\ pc = "h_done"
    /\ num_steps = MaxSteps
    /\ n_step = MaxSteps
    /\ A_mat = << <<"a", dt, "bc">> >>
    /\ uh[2] = A_mat

\* C26: the time-stepping loop ends after exactly num_steps iterations:
\* u_exact.t is t + k dt after k advances with dt = (T - t)/num_steps, never
\* more than T, and when the loop is over n = num_steps and the last solve
\* and the error check are at u_exact.t = T (in exact arithmetic); the loop
\* and the error check are always reached.
Thm_C26 ==
    /\ [](/\ dt = FDiv(Fin(T_end - t_start, 1), Fin(num_steps, 1))
          /\ n_step <= num_steps
          /\ u_exact_t = TimeAt(IF InBody THEN n_step + 1 ELSE n_step)
          /\ ~Less(Fin(T_end, 1), u_exact_t)
          /\ InBody => n_step < num_steps
          /\ pc = "h_done" =>
              /\ n_step = num_steps
              /\ u_exact_t = Fin(T_end, 1)
              /\ uh[3][4] = <<"set_bc", Interp(Fin(T_end, 1))>>
              /\ stdout = << <<"L2-error", uh, Interp(Fin(T_end, 1))>> >>)
    /\ <>(pc = "h_done")

Wit_C26 ==
    /\ pc = "h_done"
    /\ num_steps = MaxSteps
    /\ T_end = MaxT
    /\ n_step = MaxSteps
    /\ u_exact_t = Fin(MaxT, 1)
    /\ Len(stdout) = 1
\* -------------------------------------------- claims: the Newton callbacks
\* the residual vector and the Jacobian matrix of the iterate x alone
ResidualOf(x) ==
    << <<"L", x>>,
       <<"lifting", <<"a", x, "bc">>, x, -1>>,
       <<"ghostUpdate", "ADD", "REVERSE">>,
       <<"set_bc", x, -1>> >>

JacobianOf(x) == << <<"a", x, "bc">> >>

\* C27: the Newton callbacks do not accumulate: whatever calls came before,
\* a call of F leaves in the residual vector the residual of the x of that
\* call alone and a call of J leaves in the matrix the Jacobian of the x of
\* that call alone, so the vector and the matrix hold nothing but the result
\* for one iterate (or are as created), and a second call with the same x
\* gives what the first gave.
Thm_C27 ==
    /\ [](/\ res_vec \in {ZeroVec} \cup {ResidualOf(x) : x \in XVals}
          /\ jac_mat \in {ZeroVec} \cup {JacobianOf(x) : x \in XVals}
          /\ \A x \in XVals :
                /\ FCallback(x, x, res_vec) = ResidualOf(x)
                /\ FCallback(x, x, FCallback(x, x, res_vec)) = FCallback(x, x, res_vec)
                /\ JCallback(x, x, jac_mat) = JacobianOf(x)
                /\ JCallback(x, x, JCallback(x, x, jac_mat)) = JCallback(x, x, jac_mat))
    /\ [][/\ res_vec' # res_vec => res_vec' = ResidualOf(uh_vector)
          /\ jac_mat' # jac_mat => jac_mat' = JacobianOf(uh_vector)]_vars

Wit_C27 ==
    /\ pc = "n_done"
    /\ n_iter = MaxNewton
    /\ uh_vector = 2
    /\ res_vec = ResidualOf(1)
    /\ jac_mat = JacobianOf(2)
    /\ stdout = <<MaxNewton>>

====
